---------------------------- MODULE Spec2Model ----------------------------
(***************************************************************************)
(* parseAWSExports: the translation of the flat configuration object that  *)
(* the Amplify CLI generates (aws-exports.js / amplifyconfiguration.json)  *)
(* into a ResourcesConfig.                                                 *)
(*                                                                         *)
(* JavaScript values are tagged records: the field t is the type, and each *)
(* other field name always holds one TLA+ type (s: a sequence of one-      *)
(* character strings, b: a boolean, n: an integer, a: a sequence of        *)
(* values, o: a function from property keys to values).  A property key is *)
(* a TLA+ string when the code writes it as an identifier, and a sequence  *)
(* of characters when the code computes it from a string value.            *)
(***************************************************************************)
EXTENDS Integers, Sequences, FiniteSets, TLC

VARIABLES
    config,           \* the argument the caller passes (the caller's object)
    authTypeMapping,  \* the module-level table of part_000:15
    pc,               \* "ready": before the call, "done": the call has ended
    result,           \* how the last call ended: a return value or a throw
    debugLog,         \* the logger.debug messages of the last call
    calls,            \* number of calls made so far
    passed,           \* the argument as it was when the last call started
    first             \* the outcome of the first call on each argument

vars == <<config, authTypeMapping, pc, result, debugLog, calls, passed, first>>

---------------------------------------------------------------------------
(* JavaScript values                                                       *)

Undef == [t |-> "undefined"]
Null == [t |-> "null"]
Bool(b) == [t |-> "boolean", b |-> b]
Num(n) == [t |-> "number", n |-> n]
Str(s) == [t |-> "string", s |-> s]
Arr(a) == [t |-> "array", a |-> a]
Obj(o) == [t |-> "object", o |-> o]
Fn(name) == [t |-> "function", name |-> name]

Empty == [k \in {} |-> Undef]

IsNullish(v) == v.t \in {"undefined", "null"}
IsString(v) == v.t = "string"
IsArray(v) == v.t = "array"

\* ToBoolean, as the code's `if (x)`, `x ? a : b`, `x || y` and `!x` apply it
Truthy(v) ==
    CASE v.t = "undefined" -> FALSE
      [] v.t = "null" -> FALSE
      [] v.t = "boolean" -> v.b
      [] v.t = "number" -> v.n # 0
      [] v.t = "string" -> v.s # <<>>
      [] OTHER -> TRUE

\* v[k] for a readable v (reading a property of undefined or null throws, and the
\* callers test IsNullish first): own properties only, primitives have none of
\* the names the code reads.
Prop(v, k) ==
    IF v.t = "object" /\ k \in DOMAIN v.o THEN v.o[k] ELSE Undef

\* v?.k
OptProp(v, k) == IF IsNullish(v) THEN Undef ELSE Prop(v, k)

\* a ?? b
Coalesce(a, b) == IF IsNullish(a) THEN b ELSE a

---------------------------------------------------------------------------
(* Strings                                                                 *)

LowerCaseOf ==
    [A |-> "a", B |-> "b", C |-> "c", D |-> "d", E |-> "e", F |-> "f", G |-> "g",
     H |-> "h", I |-> "i", J |-> "j", K |-> "k", L |-> "l", M |-> "m", N |-> "n",
     O |-> "o", P |-> "p", Q |-> "q", R |-> "r", S |-> "s", T |-> "t", U |-> "u",
     V |-> "v", W |-> "w", X |-> "x", Y |-> "y", Z |-> "z"]

UpperCaseOf ==
    [a |-> "A", b |-> "B", c |-> "C", d |-> "D", e |-> "E", f |-> "F", g |-> "G",
     h |-> "H", i |-> "I", j |-> "J", k |-> "K", l |-> "L", m |-> "M", n |-> "N",
     o |-> "O", p |-> "P", q |-> "Q", r |-> "R", s |-> "S", t |-> "T", u |-> "U",
     v |-> "V", w |-> "W", x |-> "X", y |-> "Y", z |-> "Z"]

\* String.prototype.toLowerCase / toUpperCase on a sequence of characters
ToLowerCase(s) ==
    [i \in 1..Len(s) |-> IF s[i] \in DOMAIN LowerCaseOf THEN LowerCaseOf[s[i]] ELSE s[i]]

ToUpperCase(s) ==
    [i \in 1..Len(s) |-> IF s[i] \in DOMAIN UpperCaseOf THEN UpperCaseOf[s[i]] ELSE s[i]]

\* s.charAt(0): the empty string when s is empty
CharAt0(s) == IF Len(s) = 0 THEN <<>> ELSE <<s[1]>>

\* s.slice(1)
Slice1(s) == IF Len(s) = 0 THEN <<>> ELSE Tail(s)

\* s.split(','): the pieces between the commas, [""] for the empty string
RECURSIVE SplitFrom(_, _, _)
SplitFrom(s, i, piece) ==
    IF i > Len(s) THEN <<Str(piece)>>
    ELSE IF s[i] = "," THEN <<Str(piece)>> \o SplitFrom(s, i + 1, <<>>)
    ELSE SplitFrom(s, i + 1, Append(piece, s[i]))

SplitComma(s) == SplitFrom(s, 1, <<>>)

\* s.includes(x) for strings: x occurs in s as a substring
StringIncludes(s, x) ==
    \E i \in 1..(Len(s) + 1) :
        /\ i + Len(x) - 1 <= Len(s)
        /\ \A j \in 1..Len(x) : s[i + j - 1] = x[j]

\* The string literals of the source, character by character (s_X is the string 'X')
s_API_KEY == <<"A", "P", "I", "_", "K", "E", "Y">>

s_AWS_IAM == <<"A", "W", "S", "_", "I", "A", "M">>

s_AMAZON_COGNITO_USER_POOLS == <<"A", "M", "A", "Z", "O", "N", "_", "C", "O", "G", "N", "I", "T", "O", "_", "U", "S", "E", "R", "_", "P", "O", "O", "L", "S">>

s_OPENID_CONNECT == <<"O", "P", "E", "N", "I", "D", "_", "C", "O", "N", "N", "E", "C", "T">>

s_NONE == <<"N", "O", "N", "E">>

s_AWS_LAMBDA == <<"A", "W", "S", "_", "L", "A", "M", "B", "D", "A">>

s_LAMBDA == <<"L", "A", "M", "B", "D", "A">>

s_apiKey == <<"a", "p", "i", "K", "e", "y">>

s_iam == <<"i", "a", "m">>

s_userPool == <<"u", "s", "e", "r", "P", "o", "o", "l">>

s_oidc == <<"o", "i", "d", "c">>

s_none == <<"n", "o", "n", "e">>

s_lambda == <<"l", "a", "m", "b", "d", "a">>

s_TOTP == <<"T", "O", "T", "P">>

s_SMS == <<"S", "M", "S">>

s_REQUIRES_LOWERCASE == <<"R", "E", "Q", "U", "I", "R", "E", "S", "_", "L", "O", "W", "E", "R", "C", "A", "S", "E">>

s_REQUIRES_UPPERCASE == <<"R", "E", "Q", "U", "I", "R", "E", "S", "_", "U", "P", "P", "E", "R", "C", "A", "S", "E">>

s_REQUIRES_NUMBERS == <<"R", "E", "Q", "U", "I", "R", "E", "S", "_", "N", "U", "M", "B", "E", "R", "S">>

s_REQUIRES_SYMBOLS == <<"R", "E", "Q", "U", "I", "R", "E", "S", "_", "S", "Y", "M", "B", "O", "L", "S">>

s_EMAIL == <<"E", "M", "A", "I", "L">>

s_PHONE_NUMBER == <<"P", "H", "O", "N", "E", "_", "N", "U", "M", "B", "E", "R">>

s_enable == <<"e", "n", "a", "b", "l", "e">>

s_undefined == <<"u", "n", "d", "e", "f", "i", "n", "e", "d">>

s_null == <<"n", "u", "l", "l">>

s_true == <<"t", "r", "u", "e">>

s_false == <<"f", "a", "l", "s", "e">>

s_constructor == <<"c", "o", "n", "s", "t", "r", "u", "c", "t", "o", "r">>

s_toString == <<"t", "o", "S", "t", "r", "i", "n", "g">>

\* ToPropertyKey of the values the model passes as computed keys
ToKey(v) ==
    CASE v.t = "string" -> v.s
      [] v.t = "undefined" -> s_undefined
      [] v.t = "null" -> s_null
      [] v.t = "boolean" -> IF v.b THEN s_true ELSE s_false

---------------------------------------------------------------------------
(* The module-level table and its lookup                                   *)

\* The own properties of the object literal authTypeMapping
AuthTypeMappingTable ==
    (s_API_KEY :> Str(s_apiKey)) @@ (s_AWS_IAM :> Str(s_iam))
    @@ (s_AMAZON_COGNITO_USER_POOLS :> Str(s_userPool))
    @@ (s_OPENID_CONNECT :> Str(s_oidc)) @@ (s_NONE :> Str(s_none))
    @@ (s_AWS_LAMBDA :> Str(s_lambda)) @@ (s_LAMBDA :> Str(s_lambda))

\* What an object literal inherits: authTypeMapping is a plain object, so a key it
\* does not own is looked up on Object.prototype (two of its members are modelled).
ObjectPrototype ==
    (s_constructor :> Fn("Object")) @@ (s_toString :> Fn("toString"))

\* authTypeMapping[key]
LookupAuthType(mapping, key) ==
    IF key \in DOMAIN mapping THEN mapping[key]
    ELSE IF key \in DOMAIN ObjectPrototype THEN ObjectPrototype[key]
    ELSE Undef

---------------------------------------------------------------------------
(* The first check                                                         *)

\* The parameter default `config = {}`: only an omitted (undefined) argument
DefaultedConfig(arg) == IF arg = Undef THEN Obj(Empty) ELSE arg

\* a bug C1 would catch: the first check as `!config.aws_project_region`
HasRegionMarkerTruthy(cfg) ==
    cfg.t = "object" /\ Truthy(Prop(cfg, "aws_project_region"))

\* Object.prototype.hasOwnProperty.call(config, 'aws_project_region')
HasRegionMarker(cfg) == cfg.t = "object" /\ "aws_project_region" \in DOMAIN cfg.o

\* hasOwnProperty.call(null, ...) cannot convert its receiver to an object
ReceiverThrows(cfg) == IsNullish(cfg)

InvalidConfigThrow ==
    [kind |-> "throw",
     error |-> [class |-> "AmplifyError",
                name |-> "InvalidParameterException",
                message |-> "Invalid config parameter.",
                recoverySuggestion |->
                    "Ensure passing the config object imported from  amplifyconfiguration.json."]]

TypeErrorThrow ==
    [kind |-> "throw", error |-> [class |-> "TypeError", name |-> "TypeError"]]

---------------------------------------------------------------------------
(* Analytics                                                               *)

AnalyticsSection(cfg) ==
    IF Truthy(Prop(cfg, "aws_mobile_analytics_app_id"))
    THEN "Analytics" :>
            [Pinpoint |-> [appId |-> Prop(cfg, "aws_mobile_analytics_app_id"),
                           region |-> Prop(cfg, "aws_mobile_analytics_app_region")]]
    ELSE Empty

---------------------------------------------------------------------------
(* Notifications                                                           *)

\* const { InAppMessaging, Push } = Notifications ?? {}; then X?.AWSPinpoint
InAppPinpoint(cfg) ==
    OptProp(Prop(Coalesce(Prop(cfg, "Notifications"), Obj(Empty)), "InAppMessaging"),
            "AWSPinpoint")

PushPinpoint(cfg) ==
    OptProp(Prop(Coalesce(Prop(cfg, "Notifications"), Obj(Empty)), "Push"),
            "AWSPinpoint")

PinpointOf(block) ==
    [Pinpoint |-> [appId |-> Prop(block, "appId"), region |-> Prop(block, "region")]]

\* amplifyConfig.Notifications = { InAppMessaging: {...} }
WithInAppMessaging(block) == "InAppMessaging" :> PinpointOf(block)

\* a bug C5 would catch: the push block assigned without the spread
WithPushNotificationReassigned(prev, block) == "PushNotification" :> PinpointOf(block)

\* amplifyConfig.Notifications = { ...amplifyConfig.Notifications, PushNotification: {...} }
WithPushNotification(prev, block) ==
    ("PushNotification" :> PinpointOf(block)) @@ prev

NotificationsSection(cfg) ==
    IF Truthy(InAppPinpoint(cfg)) \/ Truthy(PushPinpoint(cfg))
    THEN LET afterInApp ==
                 IF Truthy(InAppPinpoint(cfg))
                 THEN WithInAppMessaging(InAppPinpoint(cfg)) ELSE Empty
             afterPush ==
                 IF Truthy(PushPinpoint(cfg))
                 THEN WithPushNotification(afterInApp, PushPinpoint(cfg))
                 ELSE afterInApp
         IN  "Notifications" :> afterPush
    ELSE Empty

---------------------------------------------------------------------------
(* Interactions                                                            *)

\* Object.fromEntries(entries): a later entry replaces an earlier one of the same key
RECURSIVE FromEntries(_)
FromEntries(entries) ==
    IF entries = <<>> THEN Empty
    ELSE LET n == Len(entries)
         IN  (entries[n][1] :> entries[n][2]) @@ FromEntries(SubSeq(entries, 1, n - 1))

\* bot => [bot.name, bot] reads a property of every entry
BotsThrow(cfg) ==
    LET bots == Prop(cfg, "aws_bots_config")
    IN  IsArray(bots) /\ \E i \in 1..Len(bots.a) : IsNullish(bots.a[i])

InteractionsSection(cfg) ==
    LET bots == Prop(cfg, "aws_bots_config")
    IN  IF IsArray(bots)
        THEN "Interactions" :>
                [LexV1 |-> FromEntries([i \in 1..Len(bots.a) |->
                                <<ToKey(Prop(bots.a[i], "name")), bots.a[i]>>])]
        ELSE Empty

---------------------------------------------------------------------------
(* API.GraphQL                                                             *)

\* const defaultAuthMode = authTypeMapping[aws_appsync_authenticationType]
DefaultAuthModeLookup(cfg, mapping) ==
    LookupAuthType(mapping, ToKey(Prop(cfg, "aws_appsync_authenticationType")))

\* defaultAuthMode ?? 'iam'
ResolvedAuthMode(cfg, mapping) ==
    Coalesce(DefaultAuthModeLookup(cfg, mapping), Str(s_iam))

\* if (!defaultAuthMode) logger.debug(...)
FallbackLogged(cfg, mapping) ==
    /\ Truthy(Prop(cfg, "aws_appsync_graphqlEndpoint"))
    /\ ~Truthy(DefaultAuthModeLookup(cfg, mapping))

GraphQLConfig(cfg, mapping) ==
    (IF Truthy(Prop(cfg, "modelIntrospection"))
     THEN "modelIntrospection" :> Prop(cfg, "modelIntrospection") ELSE Empty)
    @@ [endpoint |-> Prop(cfg, "aws_appsync_graphqlEndpoint"),
        customEndpoint |-> Prop(cfg, "aws_appsync_customEndpoint"),
        apiKey |-> Prop(cfg, "aws_appsync_apiKey"),
        region |-> Prop(cfg, "aws_appsync_region"),
        defaultAuthMode |-> ResolvedAuthMode(cfg, mapping)]

\* amplifyConfig.API after the GraphQL block (no API key when the block is skipped)
APIAfterGraphQL(cfg, mapping) ==
    IF Truthy(Prop(cfg, "aws_appsync_graphqlEndpoint"))
    THEN "GraphQL" :> GraphQLConfig(cfg, mapping)
    ELSE Empty

---------------------------------------------------------------------------
(* Auth                                                                    *)

\* x?.includes(item) ?? false.  An array tests membership, a string tests for a
\* substring; any other non-nullish x has no includes method and the call throws.
IncludesThrows(x) == ~IsNullish(x) /\ ~IsArray(x) /\ ~IsString(x)

IncludesOrFalse(x, item) ==
    CASE IsArray(x) -> \E i \in 1..Len(x.a) : x.a[i] = Str(item)
      [] IsString(x) -> StringIncludes(x.s, item)
      [] OTHER -> FALSE

\* lines 152-160
MfaThrows(cfg) ==
    LET mfa == Prop(cfg, "aws_cognito_mfa_configuration")
    IN  /\ Truthy(mfa)
        /\ \/ ~IsString(mfa)
           \/ IncludesThrows(Prop(cfg, "aws_cognito_mfa_types"))

MfaConfig(cfg) ==
    LET mfa == Prop(cfg, "aws_cognito_mfa_configuration")
        types == Prop(cfg, "aws_cognito_mfa_types")
    IN  IF Truthy(mfa)
        THEN Obj([status |-> Str(ToLowerCase(mfa.s)),
                  totpEnabled |-> Bool(IncludesOrFalse(types, s_TOTP)),
                  smsEnabled |-> Bool(IncludesOrFalse(types, s_SMS))])
        ELSE Undef

\* lines 161-182
PasswordFormatThrows(cfg) ==
    LET pps == Prop(cfg, "aws_cognito_password_protection_settings")
    IN  Truthy(pps) /\ IncludesThrows(Prop(pps, "passwordPolicyCharacters"))

PasswordFormatConfig(cfg) ==
    LET pps == Prop(cfg, "aws_cognito_password_protection_settings")
        chars == Prop(pps, "passwordPolicyCharacters")
    IN  IF Truthy(pps)
        THEN Obj([minLength |-> Prop(pps, "passwordPolicyMinLength"),
                  requireLowercase |-> Bool(IncludesOrFalse(chars, s_REQUIRES_LOWERCASE)),
                  requireUppercase |-> Bool(IncludesOrFalse(chars, s_REQUIRES_UPPERCASE)),
                  requireNumbers |-> Bool(IncludesOrFalse(chars, s_REQUIRES_NUMBERS)),
                  requireSpecialCharacters |->
                      Bool(IncludesOrFalse(chars, s_REQUIRES_SYMBOLS))])
        ELSE Undef

\* ...(x ?? []): the elements of an array; a non-nullish value that is not
\* iterable throws (strings, which spread into characters, are not modelled here)
SpreadThrows(x) == ~IsNullish(x) /\ ~IsArray(x)

SpreadOrEmpty(x) == IF IsArray(x) THEN x.a ELSE <<>>

\* lines 183-197: the keys of userAttributes
MergedUserAttributes(cfg) ==
    SpreadOrEmpty(Prop(cfg, "aws_cognito_verification_mechanisms"))
    \o SpreadOrEmpty(Prop(cfg, "aws_cognito_signup_attributes"))

UserAttributesThrow(cfg) ==
    \/ SpreadThrows(Prop(cfg, "aws_cognito_verification_mechanisms"))
    \/ SpreadThrows(Prop(cfg, "aws_cognito_signup_attributes"))
    \/ \E i \in 1..Len(MergedUserAttributes(cfg)) :
            ~IsString(MergedUserAttributes(cfg)[i])

UserAttributes(cfg) ==
    LET merged == MergedUserAttributes(cfg)
    IN  [k \in {ToLowerCase(merged[i].s) : i \in 1..Len(merged)} |->
            [required |-> Bool(TRUE)]]

\* lines 199-202
LoginWithThrows(cfg) == IncludesThrows(Prop(cfg, "aws_cognito_username_attributes"))

LoginWithEmailEnabled(cfg) ==
    IncludesOrFalse(Prop(cfg, "aws_cognito_username_attributes"), s_EMAIL)

LoginWithPhoneEnabled(cfg) ==
    IncludesOrFalse(Prop(cfg, "aws_cognito_username_attributes"), s_PHONE_NUMBER)

\* lines 214-218
LoginWith(cfg) ==
    [username |-> Bool(~(LoginWithEmailEnabled(cfg) \/ LoginWithPhoneEnabled(cfg))),
     email |-> Bool(LoginWithEmailEnabled(cfg)),
     phone |-> Bool(LoginWithPhoneEnabled(cfg))]

\* line 203
HasAuth(cfg) ==
    \/ Truthy(Prop(cfg, "aws_cognito_identity_pool_id"))
    \/ Truthy(Prop(cfg, "aws_user_pools_id"))

\* Object.keys(v).length: the own enumerable keys of an object, the indices of an
\* array or a string, none for the other primitives
OwnKeyCount(v) ==
    CASE v.t = "object" -> Cardinality(DOMAIN v.o)
      [] v.t = "array" -> Len(v.a)
      [] v.t = "string" -> Len(v.s)
      [] OTHER -> 0

\* a bug C7 would catch: hasOAuthConfig as `!!oauth`
HasOAuthConfigTruthy(cfg) == Truthy(Prop(cfg, "oauth"))

\* line 223
HasOAuthConfig(cfg) ==
    IF Truthy(Prop(cfg, "oauth")) THEN OwnKeyCount(Prop(cfg, "oauth")) > 0 ELSE FALSE

\* lines 224-226: v.length > 0 is false when v has no length
HasSocialProviderConfig(cfg) ==
    LET sp == Prop(cfg, "aws_cognito_social_providers")
    IN  IF Truthy(sp)
        THEN CASE IsArray(sp) -> Len(sp.a) > 0
               [] IsString(sp) -> Len(sp.s) > 0
               [] OTHER -> FALSE
        ELSE FALSE

\* getRedirectUrl: redirectStr?.split(',') ?? []
RedirectUrlThrows(v) == ~IsNullish(v) /\ ~IsString(v)

GetRedirectUrl(v) == IF IsString(v) THEN Arr(SplitComma(v.s)) ELSE Arr(<<>>)

\* getOAuthConfig
GetOAuthConfig(oauth) ==
    [domain |-> Prop(oauth, "domain"),
     scopes |-> Prop(oauth, "scope"),
     redirectSignIn |-> GetRedirectUrl(Prop(oauth, "redirectSignIn")),
     redirectSignOut |-> GetRedirectUrl(Prop(oauth, "redirectSignOut")),
     responseType |-> Prop(oauth, "responseType")]

\* a bug C8 would catch: the first character upper-cased, the rest left as it is
TitleCaseKeepRest(provider) == ToUpperCase(CharAt0(provider)) \o Slice1(provider)

\* the body of the map callback of parseSocialProviders
TitleCase(provider) ==
    LET updatedProvider == ToLowerCase(provider)
    IN  ToUpperCase(CharAt0(updatedProvider)) \o Slice1(updatedProvider)

\* parseSocialProviders: needs an array (map) of strings (toLowerCase)
SocialProvidersThrow(sp) ==
    \/ ~IsArray(sp)
    \/ \E i \in 1..Len(sp.a) : ~IsString(sp.a[i])

ParseSocialProviders(sp) ==
    Arr([i \in 1..Len(sp.a) |-> Str(TitleCase(sp.a[i].s))])

\* lines 230-235
OAuthBlock(cfg) ==
    (IF HasSocialProviderConfig(cfg)
     THEN "providers" :> ParseSocialProviders(Prop(cfg, "aws_cognito_social_providers"))
     ELSE Empty)
    @@ GetOAuthConfig(Prop(cfg, "oauth"))

\* line 227
OAuthAttached(cfg) == HasAuth(cfg) /\ HasOAuthConfig(cfg)

OAuthThrows(cfg) ==
    /\ OAuthAttached(cfg)
    /\ \/ RedirectUrlThrows(Prop(Prop(cfg, "oauth"), "redirectSignIn"))
       \/ RedirectUrlThrows(Prop(Prop(cfg, "oauth"), "redirectSignOut"))
       \/ /\ HasSocialProviderConfig(cfg)
          /\ SocialProvidersThrow(Prop(cfg, "aws_cognito_social_providers"))

\* a bug C6 would catch: loginWith assigned without the spread
WithOAuthReplacing(loginWith, oauth) == "oauth" :> oauth

\* loginWith = { ...loginWith, oauth: {...} }
WithOAuth(loginWith, oauth) == ("oauth" :> oauth) @@ loginWith

AuthThrows(cfg) ==
    \/ MfaThrows(cfg)
    \/ PasswordFormatThrows(cfg)
    \/ UserAttributesThrow(cfg)
    \/ LoginWithThrows(cfg)
    \/ OAuthThrows(cfg)

AuthSection(cfg) ==
    IF HasAuth(cfg)
    THEN "Auth" :>
        [Cognito |->
            [identityPoolId |-> Prop(cfg, "aws_cognito_identity_pool_id"),
             allowGuestAccess |-> Bool(Prop(cfg, "aws_mandatory_sign_in") # Str(s_enable)),
             signUpVerificationMethod |->
                 Prop(cfg, "aws_cognito_sign_up_verification_method"),
             userAttributes |-> UserAttributes(cfg),
             userPoolClientId |-> Prop(cfg, "aws_user_pools_web_client_id"),
             userPoolId |-> Prop(cfg, "aws_user_pools_id"),
             mfa |-> MfaConfig(cfg),
             passwordFormat |-> PasswordFormatConfig(cfg),
             loginWith |-> IF HasOAuthConfig(cfg)
                           THEN WithOAuth(LoginWith(cfg), OAuthBlock(cfg))
                           ELSE LoginWith(cfg)]]
    ELSE Empty

---------------------------------------------------------------------------
(* Storage                                                                 *)

\* a bug C3 would catch: the Storage block without its `if`
StorageSectionUnguarded(cfg) ==
    "Storage" :>
        [S3 |-> [bucket |-> Prop(cfg, "aws_user_files_s3_bucket"),
                 region |-> Prop(cfg, "aws_user_files_s3_bucket_region"),
                 dangerouslyConnectToHttpEndpointForTesting |->
                     Prop(cfg, "aws_user_files_s3_dangerously_connect_to_http_endpoint_for_testing")]]

StorageSection(cfg) ==
    IF Truthy(Prop(cfg, "aws_user_files_s3_bucket"))
    THEN "Storage" :>
        [S3 |-> [bucket |-> Prop(cfg, "aws_user_files_s3_bucket"),
                 region |-> Prop(cfg, "aws_user_files_s3_bucket_region"),
                 dangerouslyConnectToHttpEndpointForTesting |->
                     Prop(cfg, "aws_user_files_s3_dangerously_connect_to_http_endpoint_for_testing")]]
    ELSE Empty

---------------------------------------------------------------------------
(* Geo                                                                     *)

\* amazon_location_service.maps reads a property of geo.amazon_location_service
GeoThrows(cfg) ==
    /\ Truthy(Prop(cfg, "geo"))
    /\ IsNullish(Prop(Prop(cfg, "geo"), "amazon_location_service"))

GeoSection(cfg) ==
    LET amazon_location_service == Prop(Prop(cfg, "geo"), "amazon_location_service")
    IN  IF Truthy(Prop(cfg, "geo"))
        THEN "Geo" :>
            [LocationService |->
                [maps |-> Prop(amazon_location_service, "maps"),
                 geofenceCollections |->
                     Prop(amazon_location_service, "geofenceCollections"),
                 searchIndices |-> Prop(amazon_location_service, "search_indices"),
                 region |-> Prop(amazon_location_service, "region")]]
        ELSE Empty

---------------------------------------------------------------------------
(* API.REST                                                                *)

\* the value the reducer stores under [name]
RestEntry(api) ==
    (IF Truthy(Prop(api, "region")) THEN "region" :> Prop(api, "region") ELSE Empty)
    @@ (IF Truthy(Prop(api, "service")) THEN "service" :> Prop(api, "service") ELSE Empty)
    @@ [endpoint |-> Prop(api, "endpoint")]

\* (aws_cloud_logic_custom as any[]).reduce((acc, api) => ({...acc, [name]: ...}), {})
RECURSIVE RestReduce(_)
RestReduce(apis) ==
    IF apis = <<>> THEN Empty
    ELSE LET n == Len(apis)
         IN  (ToKey(Prop(apis[n], "name")) :> RestEntry(apis[n]))
             @@ RestReduce(SubSeq(apis, 1, n - 1))

\* reduce is a method of arrays only, and the reducer destructures every entry
RestThrows(cfg) ==
    LET apis == Prop(cfg, "aws_cloud_logic_custom")
    IN  /\ Truthy(apis)
        /\ \/ ~IsArray(apis)
           \/ \E i \in 1..Len(apis.a) : IsNullish(apis.a[i])

\* a bug C10 would catch: the API section assigned without the spread
WithRESTReassigned(prevAPI, rest) == "REST" :> rest

\* amplifyConfig.API = { ...amplifyConfig.API, REST: ... }
WithREST(prevAPI, rest) == ("REST" :> rest) @@ prevAPI

APISection(cfg, mapping) ==
    LET afterGraphQL == APIAfterGraphQL(cfg, mapping)
        apis == Prop(cfg, "aws_cloud_logic_custom")
    IN  IF Truthy(apis)
        THEN "API" :> WithREST(afterGraphQL, RestReduce(apis.a))
        ELSE IF Truthy(Prop(cfg, "aws_appsync_graphqlEndpoint"))
        THEN "API" :> afterGraphQL
        ELSE Empty

---------------------------------------------------------------------------
(* Predictions                                                             *)

\* predictions?.convert?.speechGenerator?.defaults ?? {}, then its VoiceId
VoiceId(predictions) ==
    Prop(Coalesce(OptProp(OptProp(OptProp(predictions, "convert"), "speechGenerator"),
                          "defaults"),
                  Obj(Empty)),
         "VoiceId")

\* { ...v }: the own properties of an object (a primitive spreads to nothing)
SpreadOf(v) == IF v.t = "object" THEN v.o ELSE Empty

PredictionsSection(cfg) ==
    LET predictions == Prop(cfg, "predictions")
        convert == Prop(predictions, "convert")
        speechGenerator == Prop(convert, "speechGenerator")
        voiceId == VoiceId(predictions)
    IN  IF Truthy(predictions)
        THEN "Predictions" :>
            (IF Truthy(voiceId)
             THEN Obj(("convert" :>
                        Obj(("speechGenerator" :>
                              Obj(("defaults" :> Obj([voiceId |-> voiceId]))
                                  @@ SpreadOf(speechGenerator)))
                            @@ SpreadOf(convert)))
                      @@ SpreadOf(predictions))
             ELSE predictions)
        ELSE Empty

---------------------------------------------------------------------------
(* parseAWSExports                                                         *)

\* A TypeError raised by one of the sections, in the order the code runs them
SectionThrows(cfg) ==
    \/ BotsThrow(cfg)
    \/ AuthThrows(cfg)
    \/ GeoThrows(cfg)
    \/ RestThrows(cfg)

\* amplifyConfig as returned at line 305
ResourcesConfig(cfg, mapping) ==
    AnalyticsSection(cfg) @@ NotificationsSection(cfg) @@ InteractionsSection(cfg)
    @@ APISection(cfg, mapping) @@ AuthSection(cfg) @@ StorageSection(cfg)
    @@ GeoSection(cfg) @@ PredictionsSection(cfg)

\* How a call with argument arg ends
ParseAWSExports(arg, mapping) ==
    LET cfg == DefaultedConfig(arg)
    IN  IF ReceiverThrows(cfg) THEN TypeErrorThrow
        ELSE IF ~HasRegionMarker(cfg) THEN InvalidConfigThrow
        ELSE IF SectionThrows(cfg) THEN TypeErrorThrow
        ELSE [kind |-> "return", value |-> ResourcesConfig(cfg, mapping)]

\* The logger.debug calls of a call: line 133 is reached when the first check
\* passes and the Interactions block, which precedes it, has not thrown
DebugMessages(arg, mapping) ==
    LET cfg == DefaultedConfig(arg)
    IN  IF /\ ~ReceiverThrows(cfg)
           /\ HasRegionMarker(cfg)
           /\ ~BotsThrow(cfg)
           /\ FallbackLogged(cfg, mapping)
        THEN <<[level |-> "debug",
                invalidType |-> Prop(cfg, "aws_appsync_authenticationType")]>>
        ELSE <<>>

---------------------------------------------------------------------------
(* The arguments the callers pass.  Every legacy field ranges over absent, *)
(* well-formed values and values of another shape; the fields of one       *)
(* section vary together while the other sections are absent or populated. *)

MaxBots == 2
MaxApis == 2
MaxProviders == 2

\* All sequences over S of length at most n
SeqsUpTo(S, n) == UNION {[1..k -> S] : k \in 0..n}

v_us == Str(<<"u", "s">>)
v_eu == Str(<<"e", "u">>)
v_app1 == Str(<<"a", "1">>)
v_app2 == Str(<<"a", "2">>)
v_app3 == Str(<<"a", "3">>)
v_url == Str(<<"h", ":", "/", "/", "x">>)
v_url2 == Str(<<"h", ":", "/", "/", "y">>)
v_empty == Str(<<>>)

RegionMarkerValues == {Undef, Null, v_empty, Bool(FALSE), Num(0), v_us}

RegionParts == {Empty} \cup {"aws_project_region" :> v : v \in RegionMarkerValues}

RegionOK == "aws_project_region" :> v_us

AnalyticsFull ==
    [aws_mobile_analytics_app_id |-> v_app1, aws_mobile_analytics_app_region |-> v_us]

AnalyticsParts ==
    {Empty, AnalyticsFull,
     [aws_mobile_analytics_app_id |-> v_empty, aws_mobile_analytics_app_region |-> v_us]}

InAppBlock == [AWSPinpoint |-> Obj([appId |-> v_app2, region |-> v_us])]
PushBlock == [AWSPinpoint |-> Obj([appId |-> v_app3, region |-> v_eu])]

NotificationsFull ==
    [Notifications |-> Obj([InAppMessaging |-> Obj(InAppBlock), Push |-> Obj(PushBlock)])]

NotificationsParts ==
    {Empty, NotificationsFull,
     [Notifications |-> Obj([InAppMessaging |-> Obj(InAppBlock)])],
     [Notifications |-> Obj([Push |-> Obj(PushBlock)])],
     [Notifications |-> Obj([InAppMessaging |-> Obj(Empty), Push |-> Null])],
     [Notifications |-> Null]}

BotA == Obj([name |-> Str(<<"A">>), alias |-> Str(<<"1">>), region |-> v_us])
BotA2 == Obj([name |-> Str(<<"A">>), alias |-> Str(<<"2">>), region |-> v_eu])
BotNoName == Obj([alias |-> Str(<<"3">>)])

BotEntries == {BotA, BotA2, BotNoName, Null}

BotsFull == [aws_bots_config |-> Arr(<<BotA>>)]

BotsParts ==
    {Empty, [aws_bots_config |-> Obj([A |-> BotA])]}
    \cup {[aws_bots_config |-> Arr(bots)] : bots \in SeqsUpTo(BotEntries, MaxBots)}

AuthTypeValues ==
    {Undef, Str(s_API_KEY), Str(s_AWS_IAM), Str(s_AMAZON_COGNITO_USER_POOLS),
     Str(s_OPENID_CONNECT), Str(s_NONE), Str(s_AWS_LAMBDA), Str(s_LAMBDA),
     Str(ToLowerCase(s_AWS_IAM)), Str(<<"J", "W", "T">>), v_empty,
     Str(s_constructor), Str(s_toString)}

ModelIntrospectionValues == {Undef, Obj([version |-> Num(1)])}

GraphQLFull ==
    [aws_appsync_graphqlEndpoint |-> v_url, aws_appsync_region |-> v_us,
     aws_appsync_apiKey |-> Str(<<"k">>),
     aws_appsync_authenticationType |-> Str(s_API_KEY)]

GraphQLParts ==
    {Empty, [aws_appsync_graphqlEndpoint |-> v_empty,
             aws_appsync_authenticationType |-> Str(<<"J", "W", "T">>)]}
    \cup {("aws_appsync_authenticationType" :> at) @@ ("modelIntrospection" :> mi)
          @@ GraphQLFull :
            at \in AuthTypeValues, mi \in ModelIntrospectionValues}

RestA == Obj([name |-> Str(<<"A">>), endpoint |-> v_url, region |-> v_us,
              service |-> Str(<<"l">>)])
RestA2 == Obj([name |-> Str(<<"A">>), endpoint |-> v_url2, region |-> v_empty])
RestB == Obj([name |-> Str(<<"B">>), endpoint |-> v_url2, service |-> Str(<<"l">>)])

RestEntries == {RestA, RestA2, RestB}

RestFull == [aws_cloud_logic_custom |-> Arr(<<RestA>>)]

RestParts ==
    {Empty, [aws_cloud_logic_custom |-> Obj([A |-> RestA])],
     [aws_cloud_logic_custom |-> Arr(<<RestB, Null>>)]}
    \cup {[aws_cloud_logic_custom |-> Arr(apis)] : apis \in SeqsUpTo(RestEntries, MaxApis)}

StorageFull ==
    [aws_user_files_s3_bucket |-> Str(<<"b">>), aws_user_files_s3_bucket_region |-> v_us]

StorageParts == {Empty, StorageFull}

GeoFull ==
    [geo |-> Obj([amazon_location_service |->
                    Obj([maps |-> Obj([default |-> Str(<<"m">>)]),
                         search_indices |-> Obj([default |-> Str(<<"i">>)]),
                         region |-> v_us])])]

GeoParts == {Empty, GeoFull, [geo |-> Obj(Empty)]}

PredictionsVoice ==
    [predictions |->
        Obj([convert |->
                Obj([speechGenerator |->
                        Obj([region |-> v_us,
                             defaults |-> Obj([VoiceId |-> Str(<<"S">>),
                                               LanguageCode |-> Str(<<"e", "n">>)])])]),
             identify |-> Obj([region |-> v_us])])]

PredictionsParts ==
    {Empty, PredictionsVoice, [predictions |-> Obj([identify |-> Obj([region |-> v_us])])]}

PoolParts ==
    {Empty,
     [aws_cognito_identity_pool_id |-> Str(<<"i", "p">>)],
     [aws_user_pools_id |-> Str(<<"u", "p">>),
      aws_user_pools_web_client_id |-> Str(<<"c">>)],
     [aws_cognito_identity_pool_id |-> Str(<<"i", "p">>),
      aws_user_pools_id |-> Str(<<"u", "p">>),
      aws_user_pools_web_client_id |-> Str(<<"c">>)],
     [aws_cognito_identity_pool_id |-> v_empty, aws_user_pools_id |-> Null]}

UsernameAttributesValues ==
    {Undef, Arr(<<>>), Arr(<<Str(s_EMAIL)>>), Arr(<<Str(s_PHONE_NUMBER)>>),
     Arr(<<Str(s_PHONE_NUMBER), Str(s_EMAIL)>>), Arr(<<Str(ToLowerCase(s_EMAIL))>>),
     Num(1)}

OAuthFull ==
    Obj([domain |-> Str(<<"d">>),
         scope |-> Arr(<<Str(<<"o">>), Str(<<"e">>)>>),
         redirectSignIn |-> Str(<<"a", ",", "b", ",", "c">>),
         redirectSignOut |-> Str(<<"a">>),
         responseType |-> Str(<<"c">>)])

OAuthValues ==
    {Undef, Obj(Empty), OAuthFull, Obj([domain |-> Str(<<"d">>)]),
     Obj([domain |-> Str(<<"d">>), redirectSignIn |-> Num(1)])}

ProviderNames ==
    {<<"G", "O", "O", "G", "L", "E">>, <<"F", "A", "C", "E", "B", "O", "O", "K">>,
     <<"a", "P", "P", "L", "E">>}

SocialProvidersValues ==
    {Undef, Str(<<"G", "O", "O", "G", "L", "E">>)}
    \cup {Arr([i \in DOMAIN names |-> Str(names[i])]) :
            names \in SeqsUpTo(ProviderNames, MaxProviders)}

\* The fields that decide loginWith and its oauth block
LoginParts ==
    {pool @@ ("aws_cognito_username_attributes" :> ua) @@ ("oauth" :> oa)
     @@ ("aws_cognito_social_providers" :> sp) :
        pool \in PoolParts, ua \in UsernameAttributesValues,
        oa \in OAuthValues, sp \in SocialProvidersValues}

MfaParts ==
    {Empty,
     [aws_cognito_mfa_configuration |-> Str(<<"O", "N">>),
      aws_cognito_mfa_types |-> Arr(<<Str(s_TOTP)>>)],
     [aws_cognito_mfa_configuration |-> Str(<<"O", "P", "T", "I", "O", "N", "A", "L">>),
      aws_cognito_mfa_types |-> Arr(<<Str(s_SMS), Str(s_TOTP)>>)],
     [aws_cognito_mfa_configuration |-> Str(<<"O", "F", "F">>)],
     [aws_cognito_mfa_configuration |-> v_empty],
     [aws_cognito_mfa_configuration |-> Num(1)]}

PasswordParts ==
    {Empty,
     [aws_cognito_password_protection_settings |->
        Obj([passwordPolicyMinLength |-> Num(8),
             passwordPolicyCharacters |->
                Arr(<<Str(s_REQUIRES_LOWERCASE), Str(s_REQUIRES_NUMBERS)>>)])],
     [aws_cognito_password_protection_settings |->
        Obj([passwordPolicyMinLength |-> Num(8)])]}

AttributeParts ==
    {Empty,
     [aws_cognito_verification_mechanisms |-> Arr(<<Str(s_EMAIL)>>),
      aws_cognito_signup_attributes |-> Arr(<<Str(s_EMAIL), Str(s_PHONE_NUMBER)>>)],
     [aws_cognito_verification_mechanisms |-> Arr(<<Str(s_PHONE_NUMBER)>>)]}

MandatoryParts ==
    {Empty, [aws_mandatory_sign_in |-> Str(s_enable)],
     [aws_mandatory_sign_in |-> Str(<<"d", "i", "s", "a", "b", "l", "e">>)]}

AuthFull ==
    [aws_cognito_identity_pool_id |-> Str(<<"i", "p">>),
     aws_user_pools_id |-> Str(<<"u", "p">>),
     aws_user_pools_web_client_id |-> Str(<<"c">>),
     aws_cognito_username_attributes |-> Arr(<<Str(s_EMAIL)>>),
     aws_cognito_social_providers |-> Arr(<<Str(<<"G", "O", "O", "G", "L", "E">>)>>),
     aws_cognito_mfa_configuration |-> Str(<<"O", "N">>),
     aws_cognito_mfa_types |-> Arr(<<Str(s_SMS)>>),
     oauth |-> OAuthFull]

AuthParts == {Empty, [aws_cognito_identity_pool_id |-> Str(<<"i", "p">>)], AuthFull}

\* Everything but the API fields, populated; everything but the Auth fields, populated
OthersOfAPI ==
    AnalyticsFull @@ NotificationsFull @@ BotsFull @@ AuthFull @@ StorageFull
    @@ GeoFull @@ PredictionsVoice

OthersOfAuth ==
    AnalyticsFull @@ NotificationsFull @@ BotsFull @@ GraphQLFull @@ RestFull
    @@ StorageFull @@ GeoFull @@ PredictionsVoice

\* which sections are present
SectionConfigs ==
    {RegionOK @@ an @@ no @@ bo @@ gq @@ re @@ au @@ st @@ ge @@ pr :
        an \in AnalyticsParts, no \in NotificationsParts \ {[Notifications |-> Null]},
        bo \in {Empty, BotsFull}, gq \in {Empty, GraphQLFull}, re \in {Empty, RestFull},
        au \in AuthParts, st \in StorageParts, ge \in GeoParts, pr \in PredictionsParts}

\* the API fields in full
APIConfigs ==
    {RegionOK @@ gq @@ re @@ others :
        gq \in GraphQLParts, re \in RestParts, others \in {Empty, OthersOfAPI}}

\* the bot list in full, with and without a GraphQL block after it
BotConfigs ==
    {RegionOK @@ bo @@ no @@ gq :
        bo \in BotsParts, no \in NotificationsParts,
        gq \in {Empty, GraphQLFull,
                ("aws_appsync_authenticationType" :> Str(<<"J", "W", "T">>))
                @@ GraphQLFull}}

\* the Auth fields in full
LoginConfigs == {RegionOK @@ lp @@ others : lp \in LoginParts, others \in {Empty}}

CognitoConfigs ==
    {RegionOK @@ pool @@ mfa @@ pw @@ at @@ ms @@ others :
        pool \in {Empty, [aws_user_pools_id |-> Str(<<"u", "p">>)]},
        mfa \in MfaParts, pw \in PasswordParts, at \in AttributeParts,
        ms \in MandatoryParts, others \in {Empty, OthersOfAuth}}

\* the region marker in full
MarkerConfigs ==
    {re @@ others :
        re \in RegionParts,
        others \in {Empty, OthersOfAuth @@ AuthFull, [geo |-> Obj(Empty)]}}

Configs ==
    SectionConfigs \cup APIConfigs \cup BotConfigs \cup LoginConfigs
    \cup CognitoConfigs \cup MarkerConfigs

\* parseAWSExports(), parseAWSExports(null), parseAWSExports({...})
Arguments == {Undef, Null} \cup {Obj(c) : c \in Configs}

---------------------------------------------------------------------------
(* The calls                                                               *)

NoResult == [kind |-> "none"]

\* What a call leaves of its argument: the code only reads config (lines 42, 51-81)
ConfigAfterCall(arg) == arg

\* a bug C9 would catch: the fallback memoised in the table
MappingAfterCallMemo(arg, mapping) ==
    IF DebugMessages(arg, mapping) # <<>>
    THEN (ToKey(Prop(DefaultedConfig(arg), "aws_appsync_authenticationType")) :> Str(s_iam))
         @@ mapping
    ELSE mapping

\* What a call leaves of the table: line 131 only reads it
MappingAfterCall(arg, mapping) == mapping

Init ==
    /\ config \in Arguments
    /\ authTypeMapping = AuthTypeMappingTable
    /\ pc = "ready"
    /\ result = NoResult
    /\ debugLog = <<>>
    /\ calls = 0
    /\ passed = Undef
    /\ first = Empty

\* parseAWSExports(config), from its first line to its return or throw
Call ==
    /\ pc = "ready"
    /\ pc' = "done"
    /\ result' = ParseAWSExports(config, authTypeMapping)
    /\ debugLog' = DebugMessages(config, authTypeMapping)
    /\ config' = ConfigAfterCall(config)
    /\ authTypeMapping' = MappingAfterCall(config, authTypeMapping)
    /\ calls' = calls + 1
    /\ passed' = config
    /\ first' = IF config \in DOMAIN first THEN first
                ELSE (config :> ParseAWSExports(config, authTypeMapping)) @@ first

Next == Call

Spec == Init /\ [][Next]_vars

---------------------------------------------------------------------------
(* Repeated calls: the caller calls again, with any argument               *)

MaxCalls == 3

RepeatArguments ==
    {Undef, Null,
     Obj(Empty),
     Obj(RegionOK),
     Obj(RegionOK @@ [geo |-> Obj(Empty)]),
     Obj(RegionOK @@ GraphQLFull),
     Obj(RegionOK @@ ("aws_appsync_authenticationType" :> Str(<<"J", "W", "T">>))
         @@ GraphQLFull),
     Obj(RegionOK @@ ("aws_appsync_authenticationType" :> Undef) @@ GraphQLFull
         @@ AuthFull @@ RestFull),
     Obj(RegionOK @@ OthersOfAuth @@ AuthFull)}

InitRepeat ==
    /\ config \in RepeatArguments
    /\ authTypeMapping = AuthTypeMappingTable
    /\ pc = "ready"
    /\ result = NoResult
    /\ debugLog = <<>>
    /\ calls = 0
    /\ passed = Undef
    /\ first = Empty

\* The caller takes up another argument (or the same one) for the next call
NextArgument ==
    /\ pc = "done"
    /\ calls < MaxCalls
    /\ \E arg \in RepeatArguments : config' = arg
    /\ pc' = "ready"
    /\ UNCHANGED <<authTypeMapping, result, debugLog, calls, passed, first>>

NextRepeat == Call \/ NextArgument

SpecRepeat == InitRepeat /\ [][NextRepeat]_vars

---------------------------------------------------------------------------
(* What the claims speak of                                                *)

\* the call has ended
Done == pc = "done"

\* the call has ended by returning amplifyConfig
Returned == pc = "done" /\ result.kind = "return"

\* the config object the call worked on, and its own properties
Cfg == DefaultedConfig(passed)

Field(k) == Prop(Cfg, k)

\* the sections of the returned object
Sections == DOMAIN result.value

\* the argument is an object without the region marker as an own property, or
\* was omitted
LacksRegionMarker ==
    \/ passed = Undef
    \/ passed.t = "object" /\ "aws_project_region" \notin DOMAIN passed.o

\* the argument is an object that owns the region marker, whatever its value
OwnsRegionMarker ==
    passed.t = "object" /\ "aws_project_region" \in DOMAIN passed.o

---------------------------------------------------------------------------
(* C1                                                                      *)

\* C1, as stated: a call whose input lacks the region-marker key as an own
\* property fails with an error named InvalidConfigError, and a call whose input
\* owns the key, with any value, passes the check.
C1_FailsWithInvalidConfigError ==
    Done =>
        /\ LacksRegionMarker =>
                /\ result.kind = "throw"
                /\ result.error.name = "InvalidConfigError"
        /\ OwnsRegionMarker => result # InvalidConfigThrow

\* C1, amended: a call whose input is an object that lacks the region-marker key
\* as an own property, or whose argument is omitted, throws the AmplifyError named
\* InvalidParameterException, whatever the other fields hold, before any section
\* runs (no output, nothing logged); a call whose input owns the key, with any
\* value (undefined, null, '', false, 0 included), does not throw that error.
C1_RegionMarkerCheck ==
    Done =>
        /\ LacksRegionMarker =>
                /\ result.kind = "throw"
                /\ result.error.class = "AmplifyError"
                /\ result.error.name = "InvalidParameterException"
                /\ debugLog = <<>>
        /\ OwnsRegionMarker =>
                ~(result.kind = "throw" /\ result.error.class = "AmplifyError")

\* a populated config without the marker has been rejected
C1_Witness ==
    /\ Done
    /\ passed.t = "object"
    /\ "aws_project_region" \notin DOMAIN passed.o
    /\ {"geo", "oauth", "aws_appsync_graphqlEndpoint"} \subseteq DOMAIN passed.o
    /\ result = InvalidConfigThrow

---------------------------------------------------------------------------
(* C2                                                                      *)

\* C2: the missing-region-marker error is the only failure: a call whose input
\* owns the region-marker key returns an output object, whatever the shape of
\* the other fields.
C2_OnlyFailureIsMissingMarker ==
    (Done /\ OwnsRegionMarker) => result.kind = "return"

---------------------------------------------------------------------------
(* C3                                                                      *)

\* C3: in the object a call returns, each top-level section is present as a key
\* exactly when its trigger is truthy (Interactions: when the bot list is an
\* array), and no other key exists; with only the region marker there is no
\* section.
C3_SectionsIffTriggers ==
    Returned =>
        /\ Sections \subseteq {"Analytics", "Notifications", "Interactions", "API",
                               "Auth", "Storage", "Geo", "Predictions"}
        /\ "Analytics" \in Sections <=> Truthy(Field("aws_mobile_analytics_app_id"))
        /\ "Notifications" \in Sections <=>
                \/ Truthy(OptProp(OptProp(Field("Notifications"), "InAppMessaging"),
                                  "AWSPinpoint"))
                \/ Truthy(OptProp(OptProp(Field("Notifications"), "Push"),
                                  "AWSPinpoint"))
        /\ "Interactions" \in Sections <=> Field("aws_bots_config").t = "array"
        /\ "API" \in Sections <=>
                \/ Truthy(Field("aws_appsync_graphqlEndpoint"))
                \/ Truthy(Field("aws_cloud_logic_custom"))
        /\ "Auth" \in Sections <=>
                \/ Truthy(Field("aws_cognito_identity_pool_id"))
                \/ Truthy(Field("aws_user_pools_id"))
        /\ "Storage" \in Sections <=> Truthy(Field("aws_user_files_s3_bucket"))
        /\ "Geo" \in Sections <=> Truthy(Field("geo"))
        /\ "Predictions" \in Sections <=> Truthy(Field("predictions"))
        /\ DOMAIN Cfg.o = {"aws_project_region"} => Sections = {}

\* a returned object with some sections triggered and the others left out
C3_Witness ==
    /\ Returned
    /\ Sections = {"Notifications", "Auth", "Geo"}
    /\ DOMAIN Cfg.o \cap {"aws_mobile_analytics_app_id", "aws_bots_config",
                          "aws_user_files_s3_bucket", "predictions"} # {}

---------------------------------------------------------------------------
(* C4                                                                      *)

\* the seven legacy authentication types and the modes the claim gives them
ClaimedAuthMode(type) ==
    CASE type = Str(s_API_KEY) -> Str(s_apiKey)
      [] type = Str(s_AWS_IAM) -> Str(s_iam)
      [] type = Str(s_AMAZON_COGNITO_USER_POOLS) -> Str(s_userPool)
      [] type = Str(s_OPENID_CONNECT) -> Str(s_oidc)
      [] type = Str(s_NONE) -> Str(s_none)
      [] type = Str(s_AWS_LAMBDA) -> Str(s_lambda)
      [] type = Str(s_LAMBDA) -> Str(s_lambda)
      [] OTHER -> Str(s_iam)

IsOneOfTheSeven(type) ==
    type \in {Str(s_API_KEY), Str(s_AWS_IAM), Str(s_AMAZON_COGNITO_USER_POOLS),
              Str(s_OPENID_CONNECT), Str(s_NONE), Str(s_AWS_LAMBDA), Str(s_LAMBDA)}

\* C4: when the GraphQL endpoint is present, defaultAuthMode in the returned
\* object is the mode of the legacy authentication type for the seven known
\* types and iam for every other value; the diagnostic is logged exactly when the
\* endpoint is present and the type is none of the seven, at most once per call.
C4_AuthModeByTable ==
    /\ (Returned /\ Truthy(Field("aws_appsync_graphqlEndpoint"))) =>
            /\ result.value.API.GraphQL.defaultAuthMode =
                    ClaimedAuthMode(Field("aws_appsync_authenticationType"))
            /\ debugLog # <<>> <=>
                    ~IsOneOfTheSeven(Field("aws_appsync_authenticationType"))
    /\ Done =>
            /\ Len(debugLog) <= 1
            /\ debugLog # <<>> =>
                    /\ Truthy(Field("aws_appsync_graphqlEndpoint"))
                    /\ ~IsOneOfTheSeven(Field("aws_appsync_authenticationType"))

---------------------------------------------------------------------------
(* C5                                                                      *)

\* the legacy Pinpoint blocks of the input
LegacyInApp == OptProp(OptProp(Field("Notifications"), "InAppMessaging"), "AWSPinpoint")

LegacyPush == OptProp(OptProp(Field("Notifications"), "Push"), "AWSPinpoint")

\* C5: in the object a call returns, Notifications holds InAppMessaging.Pinpoint
\* with the appId and region of the in-app block exactly when that block is
\* present, and PushNotification.Pinpoint with the appId and region of the push
\* block exactly when that block is present: with both blocks both entries
\* exist, each from its own block, and with one block only its entry exists.
C5_NotificationsKeepBoth ==
    (Returned /\ (Truthy(LegacyInApp) \/ Truthy(LegacyPush))) =>
        LET n == result.value.Notifications
        IN  /\ DOMAIN n = {k \in {"InAppMessaging", "PushNotification"} :
                             \/ k = "InAppMessaging" /\ Truthy(LegacyInApp)
                             \/ k = "PushNotification" /\ Truthy(LegacyPush)}
            /\ Truthy(LegacyInApp) =>
                    n.InAppMessaging =
                        [Pinpoint |-> [appId |-> LegacyInApp.o.appId,
                                       region |-> LegacyInApp.o.region]]
            /\ Truthy(LegacyPush) =>
                    n.PushNotification =
                        [Pinpoint |-> [appId |-> LegacyPush.o.appId,
                                       region |-> LegacyPush.o.region]]

\* both blocks were given, with different appIds, and both entries came out
C5_Witness ==
    /\ Returned
    /\ Truthy(LegacyInApp) /\ Truthy(LegacyPush)
    /\ LegacyInApp.o.appId # LegacyPush.o.appId
    /\ DOMAIN result.value.Notifications = {"InAppMessaging", "PushNotification"}

---------------------------------------------------------------------------
(* C6                                                                      *)

\* the legacy username-attributes list contains the string x
UsernameAttributesContain(x) ==
    LET ua == Field("aws_cognito_username_attributes")
    IN  ua.t = "array" /\ \E i \in 1..Len(ua.a) : ua.a[i] = Str(x)

\* C6: whenever the returned object has an Auth section, loginWith.email is true
\* exactly when the username-attributes list contains "EMAIL", loginWith.phone
\* exactly when it contains "PHONE_NUMBER", loginWith.username exactly when
\* both are false, and this with or without the oauth key in loginWith.
C6_LoginWithFlags ==
    (Returned /\ "Auth" \in Sections) =>
        LET lw == result.value.Auth.Cognito.loginWith
        IN  /\ {"username", "email", "phone"} \subseteq DOMAIN lw
            /\ DOMAIN lw \subseteq {"username", "email", "phone", "oauth"}
            /\ lw.email = Bool(UsernameAttributesContain(s_EMAIL))
            /\ lw.phone = Bool(UsernameAttributesContain(s_PHONE_NUMBER))
            /\ lw.username = Bool(/\ ~UsernameAttributesContain(s_EMAIL)
                                  /\ ~UsernameAttributesContain(s_PHONE_NUMBER))

\* the list is ["EMAIL"], and the oauth block was merged into loginWith
C6_Witness ==
    /\ Returned
    /\ "Auth" \in Sections
    /\ Field("aws_cognito_username_attributes") = Arr(<<Str(s_EMAIL)>>)
    /\ "oauth" \in DOMAIN result.value.Auth.Cognito.loginWith
    /\ result.value.Auth.Cognito.loginWith.email = Bool(TRUE)
    /\ result.value.Auth.Cognito.loginWith.username = Bool(FALSE)

---------------------------------------------------------------------------
(* C7                                                                      *)

\* the legacy oauth object has at least one own key
OAuthHasOwnKey == Field("oauth").t = "object" /\ DOMAIN Field("oauth").o # {}

PoolIdGiven ==
    \/ Truthy(Field("aws_cognito_identity_pool_id"))
    \/ Truthy(Field("aws_user_pools_id"))

\* C7: in the object a call returns, loginWith has an oauth key exactly when
\* the Auth section exists (a pool id is truthy) and the legacy oauth object has
\* an own key: without a pool id there is no Auth section at all, whatever oauth
\* holds, and with an absent or empty oauth object loginWith has no oauth key,
\* whatever the social-provider list holds.
C7_OAuthOnlyWithAuthAndKeys ==
    Returned =>
        /\ ~PoolIdGiven => "Auth" \notin Sections
        /\ PoolIdGiven =>
                /\ "Auth" \in Sections
                /\ "oauth" \in DOMAIN result.value.Auth.Cognito.loginWith
                        <=> OAuthHasOwnKey

\* an Auth section, an empty oauth object, a non-empty provider list: no oauth key
C7_Witness ==
    /\ Returned
    /\ "Auth" \in Sections
    /\ Field("oauth") = Obj(Empty)
    /\ Field("aws_cognito_social_providers").t = "array"
    /\ Len(Field("aws_cognito_social_providers").a) > 0
    /\ "oauth" \notin DOMAIN result.value.Auth.Cognito.loginWith

---------------------------------------------------------------------------
(* C8                                                                      *)

IsUpperCaseLetter(c) == c \in DOMAIN LowerCaseOf

IsLowerCaseLetter(c) == c \in DOMAIN UpperCaseOf

\* the same character, or the same letter in the other case
SameLetter(c, d) ==
    \/ c = d
    \/ IsUpperCaseLetter(c) /\ LowerCaseOf[c] = d
    \/ IsUpperCaseLetter(d) /\ LowerCaseOf[d] = c

\* out is name with its first character upper-cased and the rest lower-cased
IsTitleCaseOf(out, name) ==
    /\ Len(out) = Len(name)
    /\ \A j \in 1..Len(name) :
            /\ SameLetter(out[j], name[j])
            /\ j = 1 => ~IsLowerCaseLetter(out[j])
            /\ j > 1 => ~IsUpperCaseLetter(out[j])

\* C8: when the oauth block is attached, it has a providers field exactly when
\* the legacy social-provider list is non-empty, and then providers has the
\* length and order of that list, every entry in title case and duplicates
\* kept; ["GOOGLE","FACEBOOK"] gives ["Google","Facebook"].
C8_ProvidersTitleCased ==
    (Returned /\ PoolIdGiven /\ OAuthHasOwnKey) =>
        LET oauthOut == result.value.Auth.Cognito.loginWith.oauth
            sp == Field("aws_cognito_social_providers")
        IN  /\ "providers" \in DOMAIN oauthOut <=> (sp.t = "array" /\ Len(sp.a) > 0)
            /\ "providers" \in DOMAIN oauthOut =>
                    /\ oauthOut.providers.t = "array"
                    /\ Len(oauthOut.providers.a) = Len(sp.a)
                    /\ \A i \in 1..Len(sp.a) :
                            /\ oauthOut.providers.a[i].t = "string"
                            /\ IsTitleCaseOf(oauthOut.providers.a[i].s, sp.a[i].s)
            /\ sp = Arr(<<Str(<<"G", "O", "O", "G", "L", "E">>),
                          Str(<<"F", "A", "C", "E", "B", "O", "O", "K">>)>>) =>
                    oauthOut.providers =
                        Arr(<<Str(<<"G", "o", "o", "g", "l", "e">>),
                              Str(<<"F", "a", "c", "e", "b", "o", "o", "k">>)>>)

\* ["FACEBOOK","FACEBOOK"] came out as ["Facebook","Facebook"]
C8_Witness ==
    /\ Returned /\ PoolIdGiven /\ OAuthHasOwnKey
    /\ Field("aws_cognito_social_providers") =
            Arr(<<Str(<<"F", "A", "C", "E", "B", "O", "O", "K">>),
                  Str(<<"F", "A", "C", "E", "B", "O", "O", "K">>)>>)
    /\ result.value.Auth.Cognito.loginWith.oauth.providers =
            Arr(<<Str(<<"F", "a", "c", "e", "b", "o", "o", "k">>),
                  Str(<<"F", "a", "c", "e", "b", "o", "o", "k">>)>>)

---------------------------------------------------------------------------
(* C9                                                                      *)

\* C9: after any sequence of earlier calls, a call ends as the first call on the
\* same argument ended (the same return value or the same error), it leaves its
\* argument as it was passed, and it leaves the module's table as it was loaded.
C9_NoHiddenState ==
    Done =>
        /\ passed \in DOMAIN first
        /\ result = first[passed]
        /\ config = passed
        /\ authTypeMapping = AuthTypeMappingTable

\* a third call, on the argument of an earlier call that logged the fallback,
\* after a call that failed
C9_Witness ==
    /\ Done
    /\ calls = MaxCalls
    /\ Cardinality(DOMAIN first) = 2
    /\ debugLog # <<>>
    /\ result.kind = "return"
    /\ \E arg \in DOMAIN first : first[arg].kind = "throw"

---------------------------------------------------------------------------
(* C10                                                                     *)

\* the input without its cloud-logic-custom list
WithoutCloudLogic ==
    Obj([k \in DOMAIN Cfg.o \ {"aws_cloud_logic_custom"} |-> Cfg.o[k]])

\* the last entry of the list whose name is the key k
LastNamed(apis, k) ==
    apis[CHOOSE i \in 1..Len(apis) :
            /\ ToKey(Prop(apis[i], "name")) = k
            /\ \A j \in (i + 1)..Len(apis) : ToKey(Prop(apis[j], "name")) # k]

\* C10: when the input has a GraphQL endpoint and a cloud-logic-custom list, the
\* API section of the returned object holds GraphQL and REST; GraphQL is what
\* the same input without the list gives; REST has one entry per distinct name,
\* that of the last entry with the name: its endpoint, and service and region
\* only when truthy.
C10_RESTKeepsGraphQL ==
    (/\ Returned
     /\ Truthy(Field("aws_appsync_graphqlEndpoint"))
     /\ Field("aws_cloud_logic_custom").t = "array") =>
        LET api == result.value.API
            apis == Field("aws_cloud_logic_custom").a
            alone == ParseAWSExports(WithoutCloudLogic, authTypeMapping)
        IN  /\ DOMAIN api = {"GraphQL", "REST"}
            /\ alone.kind = "return"
            /\ DOMAIN alone.value.API = {"GraphQL"}
            /\ api.GraphQL = alone.value.API.GraphQL
            /\ api.GraphQL.endpoint = Field("aws_appsync_graphqlEndpoint")
            /\ DOMAIN api.REST = {ToKey(Prop(apis[i], "name")) : i \in 1..Len(apis)}
            /\ \A k \in DOMAIN api.REST :
                    LET last == LastNamed(apis, k)
                    IN  /\ api.REST[k].endpoint = Prop(last, "endpoint")
                        /\ DOMAIN api.REST[k] =
                                {"endpoint"}
                                \cup {f \in {"service", "region"} : Truthy(Prop(last, f))}
                        /\ \A f \in DOMAIN api.REST[k] : api.REST[k][f] = Prop(last, f)

\* a GraphQL endpoint and a list with two entries of one name: the last one won
C10_Witness ==
    /\ Returned
    /\ Truthy(Field("aws_appsync_graphqlEndpoint"))
    /\ Field("aws_cloud_logic_custom") = Arr(<<RestA, RestA2>>)
    /\ DOMAIN result.value.API = {"GraphQL", "REST"}
    /\ DOMAIN result.value.API.REST = {<<"A">>}
    /\ result.value.API.REST[<<"A">>] = [endpoint |-> v_url2]

===========================================================================
